---- MODULE Spec2Model ----
(***************************************************************************)
(* Model of look_to_point.cpp (reem_tutorials): a ROS node that waits for  *)
(* the camera intrinsics, connects to the head controller action server,   *)
(* shows the camera images in a window and, on every left click, sends a   *)
(* PointHead goal towards the clicked pixel.                               *)
(*                                                                         *)
(* The program is one thread.  pc is the position of main(); the callbacks *)
(* (getCameraIntrinsics, imageCallback, onMouse) run where the code pumps  *)
(* them: ros::spinOnce / ros::spin for the ROS callbacks and cv::waitKey   *)
(* (called by imageCallback) for the mouse callback.  ros::ok() is the     *)
(* variable ok, turned false by the environment (SIGINT) at any moment.    *)
(* Doubles are modelled as exact rationals <<num, den>> in lowest terms,   *)
(* with <<1,0>>, <<-1,0>> and <<0,0>> for +inf, -inf and NaN.              *)
(***************************************************************************)
EXTENDS Integers, Sequences, FiniteSets, TLC

----------------------------------------------------------------------------
(* Bounds of the model *)

MaxMouseEvents == 2     \* mouse events delivered to onMouse in one run
MaxTime == 1            \* ros::Time::now() ranges over 0..MaxTime
MaxCount == 3           \* cap of the history counters (polls after a stop, callback runs)

----------------------------------------------------------------------------
(* Program constants *)

cameraFrame == "/stereo_optical_frame"
max_iterations == 3
WaitForServerTimeout == 2
InfoQueueSize == 1
ImageQueueSize == 1
EXIT_SUCCESS == 0
EXIT_FAILURE == 1
AbortStatus == 134       \* uncaught std::runtime_error: std::terminate, SIGABRT
SegvStatus == 139        \* read through the null data pointer of an empty cv::Mat
NotExited == -1
Z == 1                   \* the arbitrary distance of the target point
EVENT_MOUSEMOVE == 0
EVENT_LBUTTONDOWN == 1
EVENT_RBUTTONDOWN == 2
EVENT_LBUTTONUP == 4
NoEvent == -1
NotStopped == -1

Events == {EVENT_MOUSEMOVE, EVENT_LBUTTONDOWN, EVENT_RBUTTONDOWN, EVENT_LBUTTONUP}

----------------------------------------------------------------------------
(* Doubles as rationals *)

Abs(n) == IF n < 0 THEN -n ELSE n

Sign(n) == IF n < 0 THEN -1 ELSE IF n = 0 THEN 0 ELSE 1

RECURSIVE GCD(_, _)
GCD(a, b) == IF b = 0 THEN a ELSE GCD(b, a % b)

\* n / d in IEEE double arithmetic for integer-valued n and d
RatDiv(n, d) ==
  IF d = 0 THEN <<Sign(n), 0>>
  ELSE LET g == GCD(Abs(n), Abs(d))
           s == IF d < 0 THEN -1 ELSE 1
       IN  <<(s * n) \div g, (s * d) \div g>>

\* x * k for a double x and an integer-valued k
RatMulInt(x, k) ==
  IF x[2] = 0 THEN (IF k = 0 THEN <<0, 0>> ELSE <<x[1] * Sign(k), 0>>)
  ELSE RatDiv(x[1] * k, x[2])

RatOfInt(n) == <<n, 1>>

----------------------------------------------------------------------------
(* Camera intrinsics *)

\* the K array of a sensor_msgs/CameraInfo message (row-major 3x3), 0-indexed
KAt(K, i) == K[i + 1]

MkK(fx, fy, cx, cy) == <<fx, 0, cx, 0, fy, cy, 0, 0, 1>>

\* calibration messages the camera_info topic may carry
KSet == {MkK(500, 500, 320, 240), MkK(2, 4, 1, 1), MkK(0, 2, 1, 0), MkK(3, 1, 0, 3)}

\* image messages the image topic may carry: one cv_bridge::toCvCopy converts,
\* or one whose encoding it rejects with a cv_bridge::Exception
FrameSet == {"decodable", "rejected"}

\* pixels the user may click
PixelSet == {<<420, 240>>, <<1, 1>>, <<0, 3>>}

\* cv::Mat(): no data
EmptyMat == <<>>

\* cv::Mat::zeros(3,3,CV_64F)
Zeros3x3 == <<<<0, 0, 0>>, <<0, 0, 0>>, <<0, 0, 0>>>>

\* cameraIntrinsics.at<double>(r, c)
MatAt(M, r, c) == M[r + 1][c + 1]

\* cameraIntrinsics.at<double>(r, c) = val
MatSet(M, r, c, val) == [M EXCEPT ![r + 1][c + 1] = val]

\* a getCameraIntrinsics that reads the principal point column-major
IntrinsicsOfMutant(K) ==
  LET m0 == Zeros3x3
      m1 == MatSet(m0, 0, 0, KAt(K, 0))
      m2 == MatSet(m1, 1, 1, KAt(K, 4))
      m3 == MatSet(m2, 0, 2, KAt(K, 6))
      m4 == MatSet(m3, 1, 2, KAt(K, 7))
  IN  MatSet(m4, 2, 2, 1)

\* the matrix getCameraIntrinsics builds from a message
IntrinsicsOf(K) ==
  LET m0 == Zeros3x3
      m1 == MatSet(m0, 0, 0, KAt(K, 0))
      m2 == MatSet(m1, 1, 1, KAt(K, 4))
      m3 == MatSet(m2, 0, 2, KAt(K, 2))
      m4 == MatSet(m3, 1, 2, KAt(K, 5))
  IN  MatSet(m4, 2, 2, 1)

\* getCameraIntrinsics applied to the messages of one callback round, in order
RECURSIVE ApplyInfo(_, _)
ApplyInfo(M, msgs) ==
  IF msgs = <<>> THEN M ELSE ApplyInfo(IntrinsicsOf(Head(msgs)), Tail(msgs))

\* all sequences over S of length at most n
RECURSIVE SeqsUpTo(_, _)
SeqsUpTo(S, n) ==
  IF n = 0 THEN {<<>>}
  ELSE LET shorter == SeqsUpTo(S, n - 1)
       IN  shorter \cup {Append(s, x) : s \in shorter, x \in S}

----------------------------------------------------------------------------
(* The goal built by onMouse *)

\* a projection that subtracts cx from both coordinates
ProjectMutant(u, v, M) ==
  LET x == RatDiv(u - MatAt(M, 0, 2), MatAt(M, 0, 0))
      y == RatDiv(v - MatAt(M, 0, 2), MatAt(M, 1, 1))
  IN  <<RatMulInt(x, Z), RatMulInt(y, Z), RatOfInt(Z)>>

\* normalized coordinates of the selected pixel, scaled by Z
Project(u, v, M) ==
  LET x == RatDiv(u - MatAt(M, 0, 2), MatAt(M, 0, 0))
      y == RatDiv(v - MatAt(M, 1, 2), MatAt(M, 1, 1))
  IN  <<RatMulInt(x, Z), RatMulInt(y, Z), RatOfInt(Z)>>

\* a goal whose target drifts with the time of the click
MakeGoalDriftMutant(u, v, M, stamp) ==
  [pointing_frame |-> cameraFrame,
   pointing_axis  |-> <<RatOfInt(0), RatOfInt(0), RatOfInt(1)>>,
   min_duration   |-> RatDiv(1, 2),
   max_velocity   |-> RatOfInt(1),
   target         |-> [frame_id |-> cameraFrame, stamp |-> stamp,
                       point |-> Project(u + stamp, v, M)]]

\* a goal that points the x axis and leaves the target frame empty
MakeGoalAxisMutant(u, v, M, stamp) ==
  [pointing_frame |-> cameraFrame,
   pointing_axis  |-> <<RatOfInt(1), RatOfInt(0), RatOfInt(0)>>,
   min_duration   |-> RatDiv(1, 2),
   max_velocity   |-> RatOfInt(1),
   target         |-> [frame_id |-> "", stamp |-> stamp, point |-> Project(u, v, M)]]

\* onMouse: the goal and the stamped point it carries
MakeGoal(u, v, M, stamp) ==
  [pointing_frame |-> cameraFrame,
   pointing_axis  |-> <<RatOfInt(0), RatOfInt(0), RatOfInt(1)>>,
   min_duration   |-> RatDiv(1, 2),
   max_velocity   |-> RatOfInt(1),
   target         |-> [frame_id |-> cameraFrame, stamp |-> stamp, point |-> Project(u, v, M)]]

\* a filter that only drops pointer moves
QualifiesMutant(event) == event # EVENT_MOUSEMOVE

\* only the left-button-down event passes the filter of onMouse
Qualifies(event) == event = EVENT_LBUTTONDOWN

\* a client that refuses a goal while it holds an earlier one
SendGoalMutant(sent, entry) == IF sent # <<>> THEN sent ELSE Append(sent, entry)

\* pointHeadClient->sendGoal(goal): hands the goal over and returns
SendGoal(sent, entry) == Append(sent, entry)

----------------------------------------------------------------------------
(* Conditions of the loops and branches of main and createPointHeadClient *)

\* a wait loop that never looks at ros::ok()
IntrinsicsLoopCondMutant(rosOk, received) == ~received

\* while ( ros::ok() && !intrinsicsReceived )
IntrinsicsLoopCond(rosOk, received) == rosOk /\ ~received

\* while( !waitForServer(2.0) && ros::ok() && iterations < max_iterations )
ServerLoopCond(connected, rosOk, iters) == ~connected /\ rosOk /\ iters < max_iterations

\* a createPointHeadClient that never throws
ThrowCondMutant(iters) == FALSE

\* if ( iterations == max_iterations ) throw
ThrowCond(iters) == iters = max_iterations

\* an event loop that never looks at ros::ok()
SpinCondMutant(rosOk) == TRUE

\* ros::spin() services callbacks while ros::ok()
SpinCond(rosOk) == rosOk

\* a main that logs the clock failure and goes on
AfterWaitForValidMutant(valid) == "subscribe"

\* the statement main reaches after ros::Time::waitForValid
AfterWaitForValid(valid) == IF valid THEN "subscribe" ELSE "done"

\* a main that returns success on the clock failure
ClockFailureStatusMutant == EXIT_SUCCESS

\* the status main returns when the clock never becomes valid
ClockFailureStatus == EXIT_FAILURE

\* the status main returns after ros::spin
ShutdownStatus == EXIT_SUCCESS

\* a main that forgets to shut the calibration subscription down
ShutdownSubscriberMutant(sub) == sub

\* cameraInfoSub.shutdown()
ShutdownSubscriber(sub) == "shutdown"

\* calibration messages one callback round may hand to getCameraIntrinsics
DeliverableInfo(sub) ==
  IF sub = "subscribed" THEN SeqsUpTo(KSet, InfoQueueSize) ELSE {<<>>}

Min(a, b) == IF a < b THEN a ELSE b

----------------------------------------------------------------------------
VARIABLES
  pc,                 \* position of main()
  ok,                 \* ros::ok()
  now,                \* ros::Time::now()
  clockResult,        \* what ros::Time::waitForValid returned
  cameraInfoSub,      \* "none", "subscribed", "shutdown"
  cameraIntrinsics,   \* the global cv::Mat
  intrinsicsReceived, \* the global flag
  pointHeadClient,    \* TRUE once the action client object exists
  iterations,         \* local of createPointHeadClient
  waitResults,        \* results of the waitForServer calls so far, in order
  window,             \* "none", "open", "destroyed"
  mouseCallback,      \* TRUE once cv::setMouseCallback ran
  imageSub,           \* TRUE once the image topic is subscribed
  goals,              \* what sendGoal handed to the action client, in order
  goalExecuting,      \* the action server is still executing a goal
  sentWhileExecuting, \* history: some goal was sent while an earlier one executed
  nMouse,             \* history: mouse events delivered to onMouse
  lastEvent,          \* history: type of the last event delivered to onMouse
  nClicks,            \* history: left-button-down events delivered to onMouse
  intrinsicsCalls,    \* history: runs of getCameraIntrinsics
  projectedEmpty,     \* history: onMouse read cameraIntrinsics while it was empty
  spinsAfterStop,     \* history: spinOnce calls of the intrinsics loop begun after the stop
  sleepsAfterStop,    \* history: sleeps of the intrinsics loop begun after the stop
  receivedK,          \* history: the K array of the last message given to getCameraIntrinsics
  stopInWait,         \* history: waitForServer calls made when the stop came during the
                      \* server wait, NotStopped when it did not
  thrown,             \* createPointHeadClient threw
  exitCode            \* exit status of the process, NotExited while it runs

progVars == <<pc, ok, cameraInfoSub, cameraIntrinsics, intrinsicsReceived, pointHeadClient,
              iterations, window, mouseCallback, imageSub, thrown, exitCode>>
envVars == <<now, clockResult, waitResults, goals, goalExecuting>>
histVars == <<sentWhileExecuting, nMouse, lastEvent, nClicks, intrinsicsCalls, projectedEmpty,
              spinsAfterStop, sleepsAfterStop, receivedK, stopInWait>>
vars == <<progVars, envVars, histVars>>

Init ==
  /\ pc = "waitForValid"
  /\ ok = TRUE
  /\ now = 0
  /\ clockResult = "pending"
  /\ cameraInfoSub = "none"
  /\ cameraIntrinsics = EmptyMat
  /\ intrinsicsReceived = FALSE
  /\ pointHeadClient = FALSE
  /\ iterations = 0
  /\ waitResults = <<>>
  /\ window = "none"
  /\ mouseCallback = FALSE
  /\ imageSub = FALSE
  /\ goals = <<>>
  /\ goalExecuting = FALSE
  /\ sentWhileExecuting = FALSE
  /\ nMouse = 0
  /\ lastEvent = NoEvent
  /\ nClicks = 0
  /\ intrinsicsCalls = 0
  /\ projectedEmpty = FALSE
  /\ spinsAfterStop = 0
  /\ sleepsAfterStop = 0
  /\ receivedK = <<>>
  /\ stopInWait = NotStopped
  /\ thrown = FALSE
  /\ exitCode = NotExited

----------------------------------------------------------------------------
(* main, up to the intrinsics wait *)

\* ros::Time::waitForValid(ros::WallDuration(5.0)) and the branch on its result
WaitForValid ==
  /\ pc = "waitForValid"
  /\ \E valid \in BOOLEAN :
       /\ clockResult' = (IF valid THEN "valid" ELSE "timeout")
       /\ pc' = AfterWaitForValid(valid)
       /\ exitCode' = (IF AfterWaitForValid(valid) = "done" THEN ClockFailureStatus ELSE exitCode)
  /\ UNCHANGED <<ok, cameraInfoSub, cameraIntrinsics, intrinsicsReceived, pointHeadClient,
                 iterations, window, mouseCallback, imageSub, thrown>>
  /\ UNCHANGED <<now, waitResults, goals, goalExecuting>>
  /\ UNCHANGED histVars

\* nh.subscribe(cameraInfoTopic, 1, getCameraIntrinsics); intrinsicsReceived = false
Subscribe ==
  /\ pc = "subscribe"
  /\ cameraInfoSub' = "subscribed"
  /\ intrinsicsReceived' = FALSE
  /\ pc' = "wi_check"
  /\ UNCHANGED <<ok, cameraIntrinsics, pointHeadClient, iterations, window, mouseCallback,
                 imageSub, thrown, exitCode>>
  /\ UNCHANGED envVars
  /\ UNCHANGED histVars

\* the test of the intrinsics-wait loop
WiCheck ==
  /\ pc = "wi_check"
  /\ pc' = (IF IntrinsicsLoopCond(ok, intrinsicsReceived) THEN "wi_spinOnce" ELSE "shutdownSub")
  /\ UNCHANGED <<ok, cameraInfoSub, cameraIntrinsics, intrinsicsReceived, pointHeadClient,
                 iterations, window, mouseCallback, imageSub, thrown, exitCode>>
  /\ UNCHANGED envVars
  /\ UNCHANGED histVars

\* ros::spinOnce() in the loop: runs getCameraIntrinsics on the queued messages
WiSpinOnce ==
  /\ pc = "wi_spinOnce"
  /\ \E msgs \in DeliverableInfo(cameraInfoSub) :
       /\ cameraIntrinsics' = ApplyInfo(cameraIntrinsics, msgs)
       /\ intrinsicsReceived' = (intrinsicsReceived \/ msgs # <<>>)
       /\ intrinsicsCalls' = Min(intrinsicsCalls + Len(msgs), MaxCount)
       /\ receivedK' = (IF msgs = <<>> THEN receivedK ELSE msgs[Len(msgs)])
  /\ spinsAfterStop' = (IF ok THEN spinsAfterStop ELSE Min(spinsAfterStop + 1, MaxCount))
  /\ pc' = "wi_sleep"
  /\ UNCHANGED <<ok, cameraInfoSub, pointHeadClient, iterations, window, mouseCallback,
                 imageSub, thrown, exitCode>>
  /\ UNCHANGED envVars
  /\ UNCHANGED <<sentWhileExecuting, nMouse, lastEvent, nClicks, projectedEmpty, sleepsAfterStop,
                 stopInWait>>

\* ros::Duration(0.2).sleep() in the loop
WiSleep ==
  /\ pc = "wi_sleep"
  /\ sleepsAfterStop' = (IF ok THEN sleepsAfterStop ELSE Min(sleepsAfterStop + 1, MaxCount))
  /\ pc' = "wi_check"
  /\ UNCHANGED <<ok, cameraInfoSub, cameraIntrinsics, intrinsicsReceived, pointHeadClient,
                 iterations, window, mouseCallback, imageSub, thrown, exitCode>>
  /\ UNCHANGED envVars
  /\ UNCHANGED <<sentWhileExecuting, nMouse, lastEvent, nClicks, intrinsicsCalls, projectedEmpty,
                 spinsAfterStop, receivedK, stopInWait>>

\* cameraInfoSub.shutdown()
ShutdownSub ==
  /\ pc = "shutdownSub"
  /\ cameraInfoSub' = ShutdownSubscriber(cameraInfoSub)
  /\ pc' = "createClient"
  /\ UNCHANGED <<ok, cameraIntrinsics, intrinsicsReceived, pointHeadClient, iterations, window,
                 mouseCallback, imageSub, thrown, exitCode>>
  /\ UNCHANGED envVars
  /\ UNCHANGED histVars

----------------------------------------------------------------------------
(* createPointHeadClient *)

\* actionClient.reset(new PointHeadClient(...)); int iterations = 0
CreateClient ==
  /\ pc = "createClient"
  /\ pointHeadClient' = TRUE
  /\ iterations' = 0
  /\ pc' = "waitForServer"
  /\ UNCHANGED <<ok, cameraInfoSub, cameraIntrinsics, intrinsicsReceived, window, mouseCallback,
                 imageSub, thrown, exitCode>>
  /\ UNCHANGED envVars
  /\ UNCHANGED histVars

\* one evaluation of the loop condition: a waitForServer call, then ros::ok(),
\* then the iteration test, and the loop body when all three hold
WaitForServer ==
  /\ pc = "waitForServer"
  /\ \E connected \in BOOLEAN :
       /\ waitResults' = Append(waitResults, connected)
       /\ IF ServerLoopCond(connected, ok, iterations)
            THEN /\ iterations' = iterations + 1
                 /\ pc' = "waitForServer"
            ELSE /\ iterations' = iterations
                 /\ pc' = "checkIterations"
  /\ UNCHANGED <<ok, cameraInfoSub, cameraIntrinsics, intrinsicsReceived, pointHeadClient,
                 window, mouseCallback, imageSub, thrown, exitCode>>
  /\ UNCHANGED <<now, clockResult, goals, goalExecuting>>
  /\ UNCHANGED histVars

\* if ( iterations == max_iterations ) throw std::runtime_error(...): nothing
\* catches it, so the process is terminated
CheckIterations ==
  /\ pc = "checkIterations"
  /\ IF ThrowCond(iterations)
       THEN /\ thrown' = TRUE
            /\ exitCode' = AbortStatus
            /\ pc' = "done"
       ELSE /\ thrown' = thrown
            /\ exitCode' = exitCode
            /\ pc' = "setupDisplay"
  /\ UNCHANGED <<ok, cameraInfoSub, cameraIntrinsics, intrinsicsReceived, pointHeadClient,
                 iterations, window, mouseCallback, imageSub>>
  /\ UNCHANGED envVars
  /\ UNCHANGED histVars

----------------------------------------------------------------------------
(* main, from the window creation on, and the callbacks of the running node *)

\* cv::namedWindow, cv::setMouseCallback, it.subscribe(imageTopic, 1, imageCallback)
SetupDisplay ==
  /\ pc = "setupDisplay"
  /\ window' = "open"
  /\ mouseCallback' = TRUE
  /\ imageSub' = TRUE
  /\ pc' = "spin"
  /\ UNCHANGED <<ok, cameraInfoSub, cameraIntrinsics, intrinsicsReceived, pointHeadClient,
                 iterations, thrown, exitCode>>
  /\ UNCHANGED envVars
  /\ UNCHANGED histVars

\* ros::spin(): the test made before every round of callbacks
Spin ==
  /\ pc = "spin"
  /\ pc' = (IF SpinCond(ok) THEN "callAvailable" ELSE "destroyWindow")
  /\ UNCHANGED <<ok, cameraInfoSub, cameraIntrinsics, intrinsicsReceived, pointHeadClient,
                 iterations, window, mouseCallback, imageSub, thrown, exitCode>>
  /\ UNCHANGED envVars
  /\ UNCHANGED histVars

\* one round of callbacks of ros::spin(): getCameraIntrinsics for the calibration
\* messages still subscribed to, then imageCallback when a frame is queued;
\* imageCallback converts the frame, shows it and enters cv::waitKey(15).  The
\* exception toCvCopy throws on a frame it rejects is caught nowhere: the
\* process is terminated where it stands, the window still open.
CallAvailable ==
  /\ pc = "callAvailable"
  /\ \E msgs \in DeliverableInfo(cameraInfoSub) :
       /\ cameraIntrinsics' = ApplyInfo(cameraIntrinsics, msgs)
       /\ intrinsicsReceived' = (intrinsicsReceived \/ msgs # <<>>)
       /\ intrinsicsCalls' = Min(intrinsicsCalls + Len(msgs), MaxCount)
       /\ receivedK' = (IF msgs = <<>> THEN receivedK ELSE msgs[Len(msgs)])
  /\ \E frames \in SeqsUpTo(FrameSet, IF imageSub THEN ImageQueueSize ELSE 0) :
       IF frames = <<>>
         THEN pc' = "spin" /\ exitCode' = exitCode
         ELSE IF Head(frames) = "rejected"
           THEN pc' = "done" /\ exitCode' = AbortStatus
           ELSE pc' = "waitKey" /\ exitCode' = exitCode
  /\ UNCHANGED <<ok, cameraInfoSub, pointHeadClient, iterations, window, mouseCallback,
                 imageSub, thrown>>
  /\ UNCHANGED envVars
  /\ UNCHANGED <<sentWhileExecuting, nMouse, lastEvent, nClicks, projectedEmpty,
                 spinsAfterStop, sleepsAfterStop, stopInWait>>

\* onMouse(event, u, v), called by cv::waitKey for an event of the window.
\* Reading an empty cameraIntrinsics is undefined: the process crashes or
\* projects with whatever the read yields.
OnMouse(event, u, v) ==
  /\ pc = "waitKey"
  /\ mouseCallback
  /\ nMouse < MaxMouseEvents
  /\ nMouse' = nMouse + 1
  /\ lastEvent' = event
  /\ IF ~Qualifies(event)
       THEN /\ UNCHANGED <<goals, goalExecuting, sentWhileExecuting, nClicks, projectedEmpty,
                           pc, exitCode>>
       ELSE /\ nClicks' = nClicks + 1
            /\ projectedEmpty' = (projectedEmpty \/ cameraIntrinsics = EmptyMat)
            /\ \/ /\ cameraIntrinsics = EmptyMat
                  /\ pc' = "done"
                  /\ exitCode' = SegvStatus
                  /\ UNCHANGED <<goals, goalExecuting, sentWhileExecuting>>
               \/ /\ \E M \in (IF cameraIntrinsics = EmptyMat
                                 THEN {IntrinsicsOf(K) : K \in KSet}
                                 ELSE {cameraIntrinsics}) :
                       goals' = SendGoal(goals, [u |-> u, v |-> v, goal |-> MakeGoal(u, v, M, now)])
                  /\ goalExecuting' = TRUE
                  /\ sentWhileExecuting' = (sentWhileExecuting \/ goalExecuting)
                  /\ UNCHANGED <<pc, exitCode>>
  /\ UNCHANGED <<ok, cameraInfoSub, cameraIntrinsics, intrinsicsReceived, pointHeadClient,
                 iterations, window, mouseCallback, imageSub, thrown>>
  /\ UNCHANGED <<now, clockResult, waitResults>>
  /\ UNCHANGED <<intrinsicsCalls, spinsAfterStop, sleepsAfterStop, receivedK, stopInWait>>

MouseEvent == \E event \in Events : \E p \in PixelSet : OnMouse(event, p[1], p[2])

\* cv::waitKey(15) times out and imageCallback returns to ros::spin()
WaitKeyReturn ==
  /\ pc = "waitKey"
  /\ pc' = "spin"
  /\ UNCHANGED <<ok, cameraInfoSub, cameraIntrinsics, intrinsicsReceived, pointHeadClient,
                 iterations, window, mouseCallback, imageSub, thrown, exitCode>>
  /\ UNCHANGED envVars
  /\ UNCHANGED histVars

\* cv::destroyWindow(windowName); return EXIT_SUCCESS
DestroyWindow ==
  /\ pc = "destroyWindow"
  /\ window' = "destroyed"
  /\ exitCode' = ShutdownStatus
  /\ pc' = "done"
  /\ UNCHANGED <<ok, cameraInfoSub, cameraIntrinsics, intrinsicsReceived, pointHeadClient,
                 iterations, mouseCallback, imageSub, thrown>>
  /\ UNCHANGED envVars
  /\ UNCHANGED histVars

----------------------------------------------------------------------------
(* The environment *)

\* a shutdown request (SIGINT): ros::ok() is false from now on
Stop ==
  /\ pc # "done"
  /\ ok
  /\ ok' = FALSE
  /\ stopInWait' = (IF pc = "waitForServer" THEN Len(waitResults) ELSE NotStopped)
  /\ UNCHANGED <<pc, cameraInfoSub, cameraIntrinsics, intrinsicsReceived, pointHeadClient,
                 iterations, window, mouseCallback, imageSub, thrown, exitCode>>
  /\ UNCHANGED envVars
  /\ UNCHANGED <<sentWhileExecuting, nMouse, lastEvent, nClicks, intrinsicsCalls, projectedEmpty,
                 spinsAfterStop, sleepsAfterStop, receivedK>>

\* time passes
Tick ==
  /\ pc # "done"
  /\ now < MaxTime
  /\ now' = now + 1
  /\ UNCHANGED progVars
  /\ UNCHANGED <<clockResult, waitResults, goals, goalExecuting>>
  /\ UNCHANGED histVars

\* the head controller finishes the goal it was executing
GoalCompletes ==
  /\ pc # "done"
  /\ goalExecuting
  /\ goalExecuting' = FALSE
  /\ UNCHANGED progVars
  /\ UNCHANGED <<now, clockResult, waitResults, goals>>
  /\ UNCHANGED histVars

----------------------------------------------------------------------------
Next ==
  \/ WaitForValid
  \/ Subscribe
  \/ WiCheck
  \/ WiSpinOnce
  \/ WiSleep
  \/ ShutdownSub
  \/ CreateClient
  \/ WaitForServer
  \/ CheckIterations
  \/ SetupDisplay
  \/ Spin
  \/ CallAvailable
  \/ MouseEvent
  \/ WaitKeyReturn
  \/ DestroyWindow
  \/ Stop
  \/ Tick
  \/ GoalCompletes

Spec == Init /\ [][Next]_vars

\* the main thread keeps running: every call it makes in the running node
\* returns (ros::spin polls with a timeout, cv::waitKey(15) times out)
FairSpec ==
  /\ Spec
  /\ WF_vars(Spin)
  /\ WF_vars(CallAvailable)
  /\ WF_vars(WaitKeyReturn)
  /\ WF_vars(DestroyWindow)

TypeOK ==
  /\ pc \in {"waitForValid", "subscribe", "wi_check", "wi_spinOnce", "wi_sleep", "shutdownSub",
             "createClient", "waitForServer", "checkIterations", "setupDisplay", "spin",
             "callAvailable", "waitKey", "destroyWindow", "done"}
  /\ ok \in BOOLEAN
  /\ now \in 0..MaxTime
  /\ clockResult \in {"pending", "valid", "timeout"}
  /\ cameraInfoSub \in {"none", "subscribed", "shutdown"}
  /\ intrinsicsReceived \in BOOLEAN
  /\ iterations \in 0..max_iterations
  /\ Len(waitResults) <= max_iterations + 1
  /\ window \in {"none", "open", "destroyed"}
  /\ Len(goals) <= MaxMouseEvents
  /\ nMouse \in 0..MaxMouseEvents
  /\ exitCode \in {NotExited, EXIT_SUCCESS, EXIT_FAILURE, AbortStatus, SegvStatus}

----------------------------------------------------------------------------
(* Properties *)

NoneConnected == \A i \in 1..Len(waitResults) : ~waitResults[i]

AfterIntrinsicsWait ==
  pc \in {"shutdownSub", "createClient", "waitForServer", "checkIterations", "setupDisplay",
          "spin", "callAvailable", "waitKey", "destroyWindow"}
  \/ (pc = "done" /\ clockResult = "valid")

\* C1: when the server never becomes ready and no stop is requested,
\* createPointHeadClient throws after exactly 3 waitForServer calls of 2 s each
\* (6 s in total).
C1_FailsAfterThreeAttempts ==
  (pc = "done" /\ clockResult = "valid" /\ ok /\ NoneConnected)
    => /\ thrown
       /\ Len(waitResults) = max_iterations
       /\ WaitForServerTimeout * Len(waitResults) = 6

\* C2: createPointHeadClient throws only when every waitForServer call returned
\* false; a call that returns true makes it return normally.
C2_ThrowsOnlyIfNeverConnected == thrown => NoneConnected

\* C3: an event delivered to onMouse that is not the left-button-down event
\* sends no goal and changes no state of the program or of its environment.
C3_OtherEventsIgnored ==
  [][(nMouse' = nMouse + 1 /\ lastEvent' # EVENT_LBUTTONDOWN)
       => (UNCHANGED <<progVars, envVars>> /\ nClicks' = nClicks)]_vars

C3_Witness ==
  /\ nMouse = 2
  /\ lastEvent = EVENT_LBUTTONUP
  /\ Len(goals) = 1

\* C4: after N left-button-down events exactly N goals have been submitted;
\* onMouse submits without waiting for the head controller, also while an
\* earlier goal is executing, and keeps nothing of the click in the program.
C4_EveryClickDispatched ==
  [][/\ Len(goals') - Len(goals) = nClicks' - nClicks
     /\ (nMouse' = nMouse + 1 /\ lastEvent' = EVENT_LBUTTONDOWN)
          => /\ nClicks' = nClicks + 1
             /\ Len(goals') = Len(goals) + 1
             /\ goalExecuting'
             /\ UNCHANGED progVars]_vars

C4_Witness ==
  /\ Len(goals) = 2
  /\ nClicks = 2
  /\ sentWhileExecuting

\* C5: once a stop is requested during the intrinsics wait, the loop makes at
\* most one more spinOnce and one more sleep before it ends, with or without a
\* calibration message.
C5_StopEndsIntrinsicsWait ==
  /\ spinsAfterStop <= 1
  /\ sleepsAfterStop <= 1

C5_Witness ==
  /\ pc = "shutdownSub"
  /\ ~intrinsicsReceived
  /\ spinsAfterStop = 1
  /\ sleepsAfterStop = 1

\* C6: when the intrinsics wait ends by cancellation, no waitForServer call is
\* made, no window is created and the image topic is not subscribed.
C6_CancelledWaitSkipsStartup ==
  (AfterIntrinsicsWait /\ ~intrinsicsReceived)
    => /\ waitResults = <<>>
       /\ window = "none"
       /\ ~imageSub

\* C7: the process exits with 0 on a normal shutdown (ros::spin returned after a
\* stop and the window was destroyed) and with a non-zero status on a startup
\* failure: EXIT_FAILURE on the clock failure, and termination by the
\* connection error, which nothing catches.  A process that ends before the
\* window exists ends by one of the two failures.
C7_ExitCodes ==
  /\ (pc = "done") <=> (exitCode # NotExited)
  /\ thrown => (pc = "done" /\ exitCode = AbortStatus /\ exitCode # 0 /\ window = "none")
  /\ (pc = "done" /\ clockResult = "timeout") => (exitCode = EXIT_FAILURE /\ exitCode # 0)
  /\ window = "destroyed" => (pc = "done" /\ exitCode = 0 /\ ~ok /\ ~thrown)
  /\ exitCode = 0 => (window = "destroyed" /\ clockResult = "valid" /\ ~ok)
  /\ (pc = "done" /\ window = "none")
       => /\ exitCode # 0
          /\ clockResult = "timeout" \/ (thrown /\ Len(waitResults) > max_iterations)

C7_Witness ==
  /\ pc = "done"
  /\ thrown
  /\ exitCode = AbortStatus

\* C8: when no valid time appears the process exits with failure before any
\* subscription, connection attempt or window; when it does, main always goes
\* on to subscribe to the calibration topic.
C8_ClockFailureBeforeSubscriptions ==
  /\ clockResult = "timeout"
       => /\ pc = "done"
          /\ exitCode = EXIT_FAILURE
          /\ cameraInfoSub = "none"
          /\ ~pointHeadClient
          /\ waitResults = <<>>
          /\ window = "none"
          /\ ~imageSub
          /\ intrinsicsCalls = 0
  /\ clockResult = "valid" => (pc = "subscribe" \/ cameraInfoSub # "none")

C8_Witness ==
  /\ clockResult = "timeout"
  /\ pc = "done"
  /\ ~ok

\* C9: whenever onMouse handles a left-button-down event, the intrinsics have
\* been received and cameraIntrinsics holds the matrix of a calibration message.
C9_IntrinsicsBeforeProjection ==
  /\ ~projectedEmpty
  /\ (pc = "waitKey" \/ nClicks > 0)
       => /\ intrinsicsReceived
          /\ intrinsicsCalls >= 1
          /\ cameraIntrinsics \in {IntrinsicsOf(K) : K \in KSet}

C9_Witness ==
  /\ nClicks = 1
  /\ Len(goals) = 1
  /\ ~ok

\* C10: getCameraIntrinsics runs at most once, the calibration subscription is
\* shut down after the wait loop, and nothing changes cameraIntrinsics or
\* intrinsicsReceived afterwards.
C10_IntrinsicsWrittenOnce ==
  [][/\ intrinsicsCalls' <= 1
     /\ intrinsicsReceived' <=> (intrinsicsCalls' = 1)
     /\ (AfterIntrinsicsWait /\ pc # "shutdownSub") => cameraInfoSub = "shutdown"
     /\ AfterIntrinsicsWait
          => UNCHANGED <<cameraIntrinsics, intrinsicsReceived, intrinsicsCalls>>]_vars

C10_Witness ==
  /\ pc = "waitKey"
  /\ intrinsicsCalls = 1
  /\ cameraInfoSub = "shutdown"
  /\ nClicks = 1

\* q is the double n / d
IsQuotient(q, n, d) ==
  IF d = 0 THEN q = <<Sign(n), 0>>
  ELSE q[2] > 0 /\ q[1] * d = n * q[2]

GoalIndices == 1..Len(goals)

TargetPoint(i) == goals[i].goal.target.point

\* C11: once the intrinsics are received, the focal lengths are positive, so
\* no target point comes from a division by zero.
C11_FocalLengthsPositive ==
  /\ intrinsicsReceived
       => /\ MatAt(cameraIntrinsics, 0, 0) > 0
          /\ MatAt(cameraIntrinsics, 1, 1) > 0
  /\ \A i \in GoalIndices : TargetPoint(i)[1][2] # 0 /\ TargetPoint(i)[2][2] # 0

\* C12: the target point of every goal is ((u - K[2]) / K[0], (v - K[5]) / K[4], 1)
\* in the camera frame, for the K array received and the pixel clicked; K =
\* (500, 500, 320, 240) and the pixel (420, 240) give (1/5, 0, 1).
C12_TargetIsProjection ==
  \A i \in GoalIndices :
    /\ IsQuotient(TargetPoint(i)[1], goals[i].u - KAt(receivedK, 2), KAt(receivedK, 0))
    /\ IsQuotient(TargetPoint(i)[2], goals[i].v - KAt(receivedK, 5), KAt(receivedK, 4))
    /\ TargetPoint(i)[3] = <<1, 1>>
    /\ goals[i].goal.target.frame_id = "/stereo_optical_frame"
    /\ (receivedK = MkK(500, 500, 320, 240) /\ goals[i].u = 420 /\ goals[i].v = 240)
         => TargetPoint(i) = <<(<<1, 5>>), (<<0, 1>>), (<<1, 1>>)>>

C12_Witness ==
  /\ Len(goals) = 2
  /\ receivedK = MkK(500, 500, 320, 240)
  /\ goals[1].u = 420 /\ goals[1].v = 240
  /\ TargetPoint(1)[1] = <<1, 5>>
  /\ goals[2].u = 0 /\ goals[2].v = 3
  /\ TargetPoint(2)[1] = <<-16, 25>>

\* C13: a click on the principal point (u = cx, v = cy) gives the target point
\* (0, 0, 1) for any positive focal lengths.
C13_PrincipalPoint ==
  \A i \in GoalIndices :
    (/\ goals[i].u = KAt(receivedK, 2)
     /\ goals[i].v = KAt(receivedK, 5)
     /\ KAt(receivedK, 0) > 0
     /\ KAt(receivedK, 4) > 0)
      => TargetPoint(i) = <<(<<0, 1>>), (<<0, 1>>), (<<1, 1>>)>>

C13_Witness ==
  /\ Len(goals) = 1
  /\ receivedK = MkK(3, 1, 0, 3)
  /\ goals[1].u = 0 /\ goals[1].v = 3

\* C14 as claimed: two clicks on the same pixel carry identical targets.
C14_SameTarget ==
  \A i, j \in GoalIndices :
    (goals[i].u = goals[j].u /\ goals[i].v = goals[j].v)
      => goals[i].goal.target = goals[j].goal.target

\* C14 as amended: two clicks on the same pixel carry the same target point and
\* frame, whenever they occur and whatever was clicked between them (the stamp
\* of a target is the time of its click).
C14_SamePoint ==
  \A i, j \in GoalIndices :
    (goals[i].u = goals[j].u /\ goals[i].v = goals[j].v)
      => /\ TargetPoint(i) = TargetPoint(j)
         /\ goals[i].goal.target.frame_id = goals[j].goal.target.frame_id

C14_Witness ==
  /\ Len(goals) = 2
  /\ goals[1].u = goals[2].u /\ goals[1].v = goals[2].v
  /\ goals[1].goal.target.stamp < goals[2].goal.target.stamp
  /\ TargetPoint(1) = TargetPoint(2)

\* C15: every goal points the z axis of the camera optical frame, with
\* min_duration 0.5 and max_velocity 1.0, at a target in the same frame.
C15_GoalParameters ==
  \A i \in GoalIndices :
    /\ goals[i].goal.pointing_frame = "/stereo_optical_frame"
    /\ goals[i].goal.pointing_axis = <<(<<0, 1>>), (<<0, 1>>), (<<1, 1>>)>>
    /\ goals[i].goal.min_duration = <<1, 2>>
    /\ goals[i].goal.max_velocity = <<1, 1>>
    /\ goals[i].goal.target.frame_id = goals[i].goal.pointing_frame

C15_Witness ==
  /\ Len(goals) = 2
  /\ goals[1].u # goals[2].u
  /\ goals[2].goal.pointing_axis[3] = <<1, 1>>

Running == pc \in {"spin", "callAvailable", "waitKey"}

\* C16: the running node is left only when ros::ok() is false, then towards
\* the shutdown; until then it keeps taking frames and clicks; once the stop is
\* requested the process destroys the window and returns EXIT_SUCCESS.
C16_RunningUntilStop ==
  /\ [][(Running /\ ~Running') => (~ok /\ pc' = "destroyWindow")]_vars
  /\ [][(Running /\ ok) => (Running' /\ window' = "open" /\ exitCode' = NotExited)]_vars
  /\ [][(pc = "destroyWindow" /\ pc' # pc)
          => (pc' = "done" /\ window' = "destroyed" /\ exitCode' = 0)]_vars
  /\ (Running /\ ~ok) ~> (pc = "done" /\ window = "destroyed" /\ exitCode = 0)

\* C17: a goal is only sent by a created client after a waitForServer call
\* that returned true; a run whose server wait ended by a stop or by exhausted
\* attempts sends none.
C17_GoalsOnlyWhenConnected ==
  /\ (nClicks > 0 \/ goals # <<>> \/ pc = "waitKey")
       => /\ pointHeadClient
          /\ \E i \in 1..Len(waitResults) : waitResults[i]
  /\ (NoneConnected \/ thrown \/ stopInWait # NotStopped) => (goals = <<>> /\ nClicks = 0)

C17_Witness ==
  /\ nClicks = 1
  /\ Len(goals) = 1
  /\ waitResults = <<FALSE, TRUE>>

\* C18: a stop requested during a waitForServer call that then fails ends the
\* wait after that call, without the error, and the process exits with 0,
\* whatever the number of calls made before.
C18_StopInWaitIsNormalShutdown ==
  (stopInWait # NotStopped /\ NoneConnected /\ pc = "done")
    => /\ Len(waitResults) = stopInWait + 1
       /\ ~thrown
       /\ exitCode = 0

====
